---- MODULE Spec2Model ----
(***************************************************************************)
(* A model of dbSNP: the sqlite-backed store (db.py, class DB) and the     *)
(* bulk loader (build.py, build_db).                                       *)
(*                                                                         *)
(* Python strings are sequences of one-character strings, so that          *)
(* str.startswith, str.upper, str.split, int(...) and str(...) are         *)
(* computed the way the interpreter computes them.                         *)
(***************************************************************************)
EXTENDS Integers, Sequences, FiniteSets, TLC

(***************************************************************************)
(* Bounds of the model.                                                    *)
(***************************************************************************)
MaxLines == 3        \* lines read from one source file
MaxBatch == 2        \* largest commit_every passed to build_db
MaxCount == 2        \* largest count passed to DB.random

(***************************************************************************)
(* Python string primitives.                                               *)
(***************************************************************************)
Lower == <<"a","b","c","d","e","f","g","h","i","j","k","l","m",
           "n","o","p","q","r","s","t","u","v","w","x","y","z">>
UpperCase == <<"A","B","C","D","E","F","G","H","I","J","K","L","M",
           "N","O","P","Q","R","S","T","U","V","W","X","Y","Z">>
DigitChars == <<"0","1","2","3","4","5","6","7","8","9">>
Whitespace == {" ", "\t", "\n", "\r"}

\* str.startswith(prefix)
StartsWith(s, p) == Len(s) >= Len(p) /\ SubSeq(s, 1, Len(p)) = p

\* str.endswith(suffix)
EndsWith(s, p) == Len(s) >= Len(p) /\ SubSeq(s, Len(s) - Len(p) + 1, Len(s)) = p

UpperChar(c) ==
    IF \E i \in 1..26 : Lower[i] = c
    THEN UpperCase[CHOOSE i \in 1..26 : Lower[i] = c]
    ELSE c

\* str.upper()
Upper(s) == [i \in 1..Len(s) |-> UpperChar(s[i])]

IsDigit(c) == \E i \in 1..10 : DigitChars[i] = c
DigitVal(c) == (CHOOSE i \in 1..10 : DigitChars[i] = c) - 1

\* the strings int() accepts: an optional sign and at least one digit
IsInt(s) ==
    LET body == IF Len(s) > 0 /\ s[1] \in {"-", "+"} THEN Tail(s) ELSE s
    IN  Len(body) > 0 /\ \A i \in 1..Len(body) : IsDigit(body[i])

RECURSIVE DigitsToNat(_)
DigitsToNat(s) ==
    IF s = <<>> THEN 0
    ELSE 10 * DigitsToNat(SubSeq(s, 1, Len(s) - 1)) + DigitVal(s[Len(s)])

\* int(s) for a string IsInt accepts
StrToInt(s) ==
    IF s[1] = "-" THEN 0 - DigitsToNat(Tail(s))
    ELSE IF s[1] = "+" THEN DigitsToNat(Tail(s))
    ELSE DigitsToNat(s)

RECURSIVE NatToStr(_)
NatToStr(n) ==
    IF n < 10 THEN <<DigitChars[n + 1]>>
    ELSE NatToStr(n \div 10) \o <<DigitChars[(n % 10) + 1]>>

\* str(n) / '{}'.format(n) for an integer
IntToStr(n) == IF n < 0 THEN <<"-">> \o NatToStr(0 - n) ELSE NatToStr(n)

\* abs(n)
Abs(n) == IF n < 0 THEN 0 - n ELSE n

RECURSIVE RStrip(_)
\* str.rstrip()
RStrip(s) ==
    IF s # <<>> /\ s[Len(s)] \in Whitespace
    THEN RStrip(SubSeq(s, 1, Len(s) - 1))
    ELSE s

RECURSIVE Split(_, _)
\* str.split(sep) for a one-character separator
Split(s, sep) ==
    IF \E i \in 1..Len(s) : s[i] = sep
    THEN LET k == CHOOSE i \in 1..Len(s) :
                     s[i] = sep /\ \A j \in 1..(i - 1) : s[j] # sep
         IN  <<SubSeq(s, 1, k - 1)>> \o Split(SubSeq(s, k + 1, Len(s)), sep)
    ELSE <<s>>

RECURSIVE Join(_, _)
\* sep.join(parts)
Join(parts, sep) ==
    IF parts = <<>> THEN <<>>
    ELSE IF Len(parts) = 1 THEN parts[1]
    ELSE parts[1] \o sep \o Join(Tail(parts), sep)


(***************************************************************************)
(* Python values of more than one type: a dictionary key, a chromosome     *)
(* rank.  t is the type's name; a str has its characters in v (None what   *)
(* str(None) gives), an int its value in n.                                *)
(***************************************************************************)
PyStr(s) == [t |-> "str", v |-> s]
PyInt(n) == [t |-> "int", n |-> n]
PyNone == [t |-> "NoneType", v |-> <<"N","o","n","e">>]

\* str(x)
Str(x) == IF x.t = "int" THEN IntToStr(x.n) ELSE x.v

\* ord(c), as far as the order of the characters goes (ASCII order)
AsciiOrder == <<"\t", "\n", " ", "+", "-", ".", "/">> \o DigitChars \o <<":">>
              \o UpperCase \o <<"_">> \o Lower
Ord(c) == CHOOSE i \in 1..Len(AsciiOrder) : AsciiOrder[i] = c

RECURSIVE StrLt(_, _)
\* a < b for two strings
StrLt(a, b) ==
    IF b = <<>> THEN FALSE
    ELSE IF a = <<>> THEN TRUE
    ELSE IF a[1] # b[1] THEN Ord(a[1]) < Ord(b[1])
    ELSE StrLt(Tail(a), Tail(b))

(***************************************************************************)
(* Literals of the source.                                                 *)
(***************************************************************************)
Chr == <<"c","h","r">>
Track == <<"t","r","a","c","k">>
Rs == <<"r","s">>
Tab == "\t"
SqliteScheme == <<"s","q","l","i","t","e",":">>
SqliteLocal == SqliteScheme \o <<"/","/","/">>
DbExt == <<".","d","b">>
LengthKey == <<"l","e","n","g","t","h">>
DefaultVersion == 150
ChunkSize == 990
RankX == 99
RankY == 100
RankM == 101

(***************************************************************************)
(* chrom_key: the sort key of a chromosome label.  A label that is not a   *)
(* string has no startswith: the call raises AttributeError.               *)
(***************************************************************************)
chrom_key(chrom) ==
    IF chrom.t # "str" THEN [t |-> "AttributeError", v |-> <<>>]
    ELSE LET c == IF StartsWith(chrom.v, Chr)
                  THEN SubSeq(chrom.v, 4, Len(chrom.v)) ELSE chrom.v
         IN  IF Upper(c) = <<"X">> THEN PyInt(RankX)
             ELSE IF Upper(c) = <<"Y">> THEN PyInt(RankY)
             ELSE IF StartsWith(Upper(c), <<"M">>) THEN PyInt(RankM)
             ELSE IF IsInt(c) THEN PyInt(StrToInt(c))
             ELSE PyStr(c)

(***************************************************************************)
(* a < b on two values chrom_key returned, as sorted() evaluates it under  *)
(* interpreter version py: "True", "False" or "TypeError".  Python 3       *)
(* refuses to order an int and a str; Python 2 puts every int before       *)
(* every str.                                                              *)
(***************************************************************************)
PyLess(py, a, b) ==
    IF a.t = "int" /\ b.t = "int" THEN (IF a.n < b.n THEN "True" ELSE "False")
    ELSE IF a.t = "str" /\ b.t = "str"
         THEN (IF StrLt(a.v, b.v) THEN "True" ELSE "False")
    ELSE IF py = 3 THEN "TypeError"
    ELSE IF a.t = "int" THEN "True" ELSE "False"

RECURSIVE InsertSorted(_, _, _)
\* x put into the sorted list s after every element that is not greater
InsertSorted(py, s, x) ==
    IF s = <<>> THEN <<x>>
    ELSE IF PyLess(py, chrom_key(x), chrom_key(s[Len(s)])) = "True"
         THEN Append(InsertSorted(py, SubSeq(s, 1, Len(s) - 1), x), s[Len(s)])
         ELSE Append(s, x)

RECURSIVE StableSort(_, _)
StableSort(py, keys) ==
    IF keys = <<>> THEN <<>>
    ELSE InsertSorted(py, StableSort(py, SubSeq(keys, 1, Len(keys) - 1)),
                      keys[Len(keys)])

(***************************************************************************)
(* sorted(keys, key=chrom_key): [err, keys].  chrom_key is called on every *)
(* key first.  A sort of two or more keys compares every key with some     *)
(* other one and the comparisons connect all of them, so under Python 3 it *)
(* raises TypeError exactly when the ranks are of both types.              *)
(***************************************************************************)
SortedByChromKey(py, keys) ==
    LET ranks == [i \in 1..Len(keys) |-> chrom_key(keys[i])]
    IN  IF \E i \in 1..Len(keys) : ranks[i].t = "AttributeError"
        THEN [err |-> "AttributeError", keys |-> <<>>]
        ELSE IF py = 3 /\ \E i, j \in 1..Len(keys) : ranks[i].t # ranks[j].t
        THEN [err |-> "TypeError", keys |-> <<>>]
        ELSE [err |-> "", keys |-> StableSort(py, keys)]


(***************************************************************************)
(* Input universe: the lines a source file is made of, the directory the   *)
(* handles are bound to.                                                   *)
(***************************************************************************)
chr7 == Chr \o <<"7">>
chrX == Chr \o <<"X">>
chrY == Chr \o <<"Y">>
chrM == Chr \o <<"M">>
chrUn == Chr \o <<"U","n">>
chr99 == Chr \o <<"9","9">>
rs1 == Rs \o <<"1">>
rs2 == Rs \o <<"2">>
rs3 == Rs \o <<"3">>

BedLine(chrom, start, end, name, strand) ==
    Join(<<chrom, IntToStr(start), IntToStr(end), name, <<"0">>, <<strand>>>>,
         <<Tab>>) \o <<"\n">>

TrackLine == Track \o <<" ","n","a","m","e","=","x","\n">>
ShortLine == Join(<<chr7, <<"5">>, <<"6">>>>, <<Tab>>) \o <<"\n">>

Lines == { BedLine(chr7, 5, 6, rs1, "+"), BedLine(chr7, 7, 8, rs2, "-"),
           BedLine(chrX, 5, 6, rs3, "+"), TrackLine, ShortLine }

LocalDir == <<"/","d">>
RemoteLoc == SqliteScheme \o <<"/","/","h">>
FileLoc == <<"/","d","/","x">> \o DbExt
NoDir == <<"/","n">>
Dirs == {LocalDir}
Locations == {LocalDir, RemoteLoc, FileLoc, NoDir}

(***************************************************************************)
(* State.                                                                  *)
(*   fs            paths of the regular files on disk                      *)
(*   schema        the database file holds the tables dbSNP and dbInfo     *)
(*   dbSNP, dbInfo the committed rows of the two tables, in rowid order    *)
(*   h             the DB handle: file (the engine URL) and _length        *)
(*   pc            where build_db is: idle, loop, length, done, failed     *)
(*   commit_every, count, records, rows   locals of build_db               *)
(*   conn          rows inserted on build_db's connection, not committed   *)
(*   nread         lines of the source file consumed so far                *)
(*   err           the exception that ended build_db, "" if none           *)
(*   flushes       the batches handed to executemany inside the loop       *)
(*   accepted      lines accepted by the runs completed since the last     *)
(*                 confirmed initialize_db                                 *)
(*   infoAtStart   dbInfo as it was when the run started                   *)
(*   lenWrites     writes of the length entry made by the run              *)
(*   res           the last call on the handle and what it returned        *)
(***************************************************************************)
VARIABLES fs, schema, dbSNP, dbInfo, h, pc, commit_every, count, records,
          rows, conn, nread, err, flushes, accepted, infoAtStart, lenWrites,
          res

storeVars == <<fs, schema, dbSNP, dbInfo>>
buildVars == <<pc, commit_every, count, records, rows, conn, nread, err>>
histVars == <<flushes, infoAtStart, lenWrites>>
vars == <<fs, schema, dbSNP, dbInfo, h, pc, commit_every, count, records,
          rows, conn, nread, err, flushes, accepted, infoAtStart, lenWrites,
          res>>

(***************************************************************************)
(* DB.__init__: the handle bound to (location, version), or the error.     *)
(***************************************************************************)
NoLength == [some |-> FALSE, v |-> 0]

DbFileName(version) == <<"/","d","b","s","n","p">> \o IntToStr(version) \o DbExt

RECURSIVE RStripSlash(_)
\* str.rstrip('/')
RStripSlash(s) ==
    IF s # <<>> /\ s[Len(s)] = "/" THEN RStripSlash(SubSeq(s, 1, Len(s) - 1))
    ELSE s

DBInit(location, version) ==
    IF EndsWith(location, DbExt) THEN [err |-> "ValueError", file |-> <<>>]
    ELSE IF ~StartsWith(location, SqliteScheme) /\ location \notin Dirs
    THEN [err |-> "ValueError", file |-> <<>>]
    ELSE LET loc == IF StartsWith(location, SqliteScheme) THEN location
                    ELSE SqliteLocal \o location
         IN  [err |-> "", file |-> RStripSlash(loc) \o DbFileName(version)]

\* the path of the database file the engine opens for a sqlite:/// URL
EnginePath(file) == SubSeq(file, Len(SqliteLocal) + 1, Len(file))

\* the file build_db is given: the database of (LocalDir, DefaultVersion)
DbPath == LocalDir \o DbFileName(DefaultVersion)

(***************************************************************************)
(* The tables.                                                             *)
(***************************************************************************)
\* the rowid sqlite gives the next row of a table
NextId(table) ==
    IF table = <<>> THEN 1
    ELSE 1 + (CHOOSE m \in {table[i].id : i \in 1..Len(table)} :
                 \A i \in 1..Len(table) : table[i].id <= m)

\* a value stored in an INTEGER column
IntAffinity(s) == IF IsInt(s) THEN StrToInt(s) ELSE s

\* one row of executemany's insert: record is (name, chrom, start, end, strand)
InsertRow(table, record) ==
    IF \E i \in 1..Len(table) : table[i].name = record[1]
    THEN [err |-> "IntegrityError", table |-> table]
    ELSE [err |-> "",
          table |-> Append(table, [id |-> NextId(table),
                                   name |-> record[1],
                                   chrom |-> record[2],
                                   start |-> IntAffinity(record[3]),
                                   end |-> IntAffinity(record[4]),
                                   strand |-> record[5]])]

RECURSIVE ExecuteMany(_, _, _)
\* conn.executemany(insert, recs) on a connection that sees table
ExecuteMany(hasSchema, table, recs) ==
    IF ~hasSchema THEN [err |-> "OperationalError", table |-> table]
    ELSE IF recs = <<>> THEN [err |-> "", table |-> table]
    ELSE LET one == InsertRow(table, Head(recs))
         IN  IF one.err # "" THEN one
             ELSE ExecuteMany(hasSchema, one.table, Tail(recs))

\* INSERT OR REPLACE INTO dbInfo (name, value) VALUES ('length', '<dblen>')
ReplaceLength(info, dblen) ==
    LET kept == SelectSeq(info, LAMBDA r : r.name # LengthKey)
    IN  Append(kept, [id |-> NextId(kept), name |-> LengthKey,
                      value |-> IntToStr(dblen)])

\* the line split into its fields: [err, record]
ParseLine(line) ==
    LET fields == Split(RStrip(line), Tab)
    IN  IF Len(fields) # 6 THEN [err |-> "ValueError", record |-> <<>>]
        ELSE [err |-> "",
              record |-> <<fields[4], fields[1], fields[2], fields[3], fields[6]>>]


(***************************************************************************)
(* What a call on the handle left behind.                                  *)
(***************************************************************************)
\* the state of the local store: no backing file, a file without tables,
\* tables without a length entry (with or without rows), a length entry
StoreState ==
    IF DbPath \notin fs THEN "Unbound"
    ELSE IF ~schema THEN "Empty"
    ELSE IF \E i \in 1..Len(dbInfo) : dbInfo[i].name = LengthKey THEN "Populated"
    ELSE IF dbSNP = <<>> THEN "Initialized"
    ELSE "Unfinalized"

\* state is the state of the store when the call was made
Result(op, args, e, out, val) ==
    [op |-> op, args |-> args, err |-> e, rows |-> out, val |-> val,
     state |-> StoreState]

NoResult ==
    [op |-> "none", args |-> <<>>, err |-> "", rows |-> <<>>, val |-> 0,
     state |-> "Unbound"]

Init ==
    /\ fs = {}
    /\ schema = FALSE
    /\ dbSNP = <<>>
    /\ dbInfo = <<>>
    /\ h = [file |-> DBInit(LocalDir, DefaultVersion).file, length |-> NoLength]
    /\ pc = "idle"
    /\ commit_every = 0
    /\ count = 0
    /\ records = <<>>
    /\ rows = 0
    /\ conn = <<>>
    /\ nread = 0
    /\ err = ""
    /\ flushes = <<>>
    /\ accepted = 0
    /\ infoAtStart = <<>>
    /\ lenWrites = 0
    /\ res = NoResult

(***************************************************************************)
(* build_db(db, f, commit_every).  The sqlite3 connection opens a          *)
(* transaction at the first insert and holds it until conn.commit(): the   *)
(* rows of executemany are in conn until then.  An exception leaves the    *)
(* function with the connection unreferenced; closing it rolls the open    *)
(* transaction back.                                                       *)
(***************************************************************************)
\* lines 30-42: the counters and sqlite3.connect(db), which creates the file
BuildStart(B) ==
    /\ pc = "idle"
    /\ res.op = "none"
    /\ pc' = "loop"
    /\ commit_every' = B
    /\ count' = B
    /\ records' = <<>>
    /\ rows' = 0
    /\ conn' = <<>>
    /\ nread' = 0
    /\ err' = ""
    /\ fs' = fs \cup {DbPath}
    /\ flushes' = <<>>
    /\ infoAtStart' = dbInfo
    /\ lenWrites' = 0
    /\ UNCHANGED <<schema, dbSNP, dbInfo, h, accepted, res>>

\* the exception e leaves build_db: the locals are gone, conn is rolled back
Abort(e) ==
    /\ pc' = "failed"
    /\ err' = e
    /\ conn' = <<>>
    /\ records' = <<>>
    /\ count' = 0
    /\ rows' = 0

\* lines 44-63: one turn of the loop over the lines of the file
ReadLine(line) ==
    /\ pc = "loop"
    /\ nread < MaxLines
    /\ nread' = nread + 1
    /\ IF StartsWith(line, Track)
       THEN UNCHANGED <<pc, count, records, rows, conn, err, flushes>>
       ELSE LET parsed == ParseLine(line)
                recs == Append(records, parsed.record)
                done == ExecuteMany(schema, dbSNP \o conn, recs)
            IN  IF parsed.err # ""
                THEN Abort(parsed.err) /\ UNCHANGED flushes
                ELSE IF count # 0
                THEN /\ records' = recs
                     /\ count' = count - 1
                     /\ rows' = rows + 1
                     /\ UNCHANGED <<pc, conn, err, flushes>>
                ELSE /\ flushes' = Append(flushes, recs)
                     /\ IF done.err # ""
                        THEN Abort(done.err)
                        ELSE /\ conn' = SubSeq(done.table, Len(dbSNP) + 1,
                                               Len(done.table))
                             /\ count' = commit_every - 1
                             /\ records' = <<>>
                             /\ rows' = rows + 1
                             /\ UNCHANGED <<pc, err>>
    /\ UNCHANGED <<storeVars, h, commit_every, accepted, infoAtStart,
                   lenWrites, res>>

\* lines 64-69: the file is read; the last insert and the commit of the rows
EndOfFile ==
    /\ pc = "loop"
    /\ LET done == ExecuteMany(schema, dbSNP \o conn, records)
       IN  IF done.err # ""
           THEN Abort(done.err) /\ UNCHANGED dbSNP
           ELSE /\ dbSNP' = done.table
                /\ conn' = <<>>
                /\ pc' = "length"
                /\ UNCHANGED <<count, records, rows, err>>
    /\ UNCHANGED <<fs, schema, dbInfo, h, commit_every, nread, flushes,
                   accepted, infoAtStart, lenWrites, res>>

\* the count taken from the loop's counter of lines instead of the table
CountRows_FromCounter(table) == rows

\* the value build_db writes under 'length': SELECT COUNT(*) FROM dbSNP
CountRows(table) == Len(table)

\* lines 70-81: the length entry, its commit, the close
WriteLength ==
    /\ pc = "length"
    /\ dbInfo' = ReplaceLength(dbInfo, CountRows(dbSNP))
    /\ lenWrites' = lenWrites + 1
    /\ accepted' = accepted + rows
    /\ pc' = "done"
    /\ UNCHANGED <<fs, schema, dbSNP, h, commit_every, count, records,
                   rows, conn, nread, err, flushes, infoAtStart, res>>

\* build_db has returned or raised; the caller goes on
Return ==
    /\ pc \in {"done", "failed"}
    /\ pc' = "idle"
    /\ commit_every' = 0
    /\ count' = 0
    /\ records' = <<>>
    /\ rows' = 0
    /\ conn' = <<>>
    /\ nread' = 0
    /\ err' = ""
    /\ flushes' = <<>>
    /\ infoAtStart' = <<>>
    /\ lenWrites' = 0
    /\ UNCHANGED <<storeVars, h, accepted, res>>

\* an exception from outside (KeyboardInterrupt, an I/O error of the engine)
\* raised between two statements of build_db
Interrupt ==
    /\ pc \in {"loop", "length"}
    /\ Abort("Interrupt")
    /\ UNCHANGED <<storeVars, h, commit_every, nread, flushes, accepted,
                   infoAtStart, lenWrites, res>>


(***************************************************************************)
(* The handle's access to the store.  A query goes through the engine of   *)
(* h.file: sqlite creates a missing database file (empty, without tables)  *)
(* when it opens it, and a statement on a table that does not exist        *)
(* raises OperationalError.  query(...).all() is SelectSeq over dbSNP: the *)
(* rows that match, in rowid order.                                        *)
(***************************************************************************)
\* the error of a query on the engine of file, "" if it runs
Connect(file) ==
    IF ~StartsWith(file, SqliteLocal) THEN "ArgumentError"
    ELSE IF ~schema THEN "OperationalError"
    ELSE ""

\* the files on disk after the engine of file was opened
Touch(file) ==
    IF StartsWith(file, SqliteLocal) THEN fs \cup {EnginePath(file)} ELSE fs

\* the values of 'length' in dbInfo
LengthValues(info) == SelectSeq(info, LAMBDA r : r.name = LengthKey)

\* __len__ with a missing length entry read as 0 instead of raising
DBLen_MissingIsZero(handle) ==
    IF handle.length.some /\ handle.length.v # 0
    THEN [err |-> "", length |-> handle.length, val |-> Abs(handle.length.v),
          queried |-> FALSE]
    ELSE IF Connect(handle.file) # ""
    THEN [err |-> Connect(handle.file), length |-> handle.length, val |-> 0,
          queried |-> TRUE]
    ELSE IF LengthValues(dbInfo) = <<>>
    THEN [err |-> "", length |-> [some |-> TRUE, v |-> 0], val |-> 0,
          queried |-> TRUE]
    ELSE LET n == StrToInt(LengthValues(dbInfo)[1].value)
         IN  [err |-> "", length |-> [some |-> TRUE, v |-> n], val |-> Abs(n),
              queried |-> TRUE]

(***************************************************************************)
(* DB.__len__: [err, length, val, queried].  length is the handle's        *)
(* _length afterwards, val the value returned.                             *)
(***************************************************************************)
DBLen(handle) ==
    IF handle.length.some /\ handle.length.v # 0
    THEN [err |-> "", length |-> handle.length, val |-> Abs(handle.length.v),
          queried |-> FALSE]
    ELSE IF Connect(handle.file) # ""
    THEN [err |-> Connect(handle.file), length |-> handle.length, val |-> 0,
          queried |-> TRUE]
    ELSE IF LengthValues(dbInfo) = <<>>
    THEN [err |-> "TypeError", length |-> handle.length, val |-> 0,
          queried |-> TRUE]
    ELSE IF ~IsInt(LengthValues(dbInfo)[1].value)
    THEN [err |-> "ValueError", length |-> handle.length, val |-> 0,
          queried |-> TRUE]
    ELSE LET n == StrToInt(LengthValues(dbInfo)[1].value)
         IN  [err |-> "", length |-> [some |-> TRUE, v |-> n], val |-> Abs(n),
              queried |-> TRUE]

\* a handle on the local database that has not resolved its length yet
NewLocalHandle ==
    [file |-> DBInit(LocalDir, DefaultVersion).file, length |-> NoLength]

\* the call changes nothing but the handle's cache, the file sqlite creates
\* and res
Called(handle, queried, result) ==
    /\ pc = "idle"
    /\ res.op = "none"
    /\ h' = handle
    /\ fs' = IF queried THEN Touch(h.file) ELSE fs
    /\ res' = result
    /\ UNCHANGED <<schema, dbSNP, dbInfo, buildVars, histVars, accepted>>

\* db = DB(location, version)
NewHandle(location) ==
    LET made == DBInit(location, DefaultVersion)
    IN  Called(IF made.err = "" THEN [file |-> made.file, length |-> NoLength]
               ELSE h,
               FALSE, Result("DB", location, made.err, <<>>, 0))

\* os.path.isfile(self.file)
IsFile(file) == file \in fs

\* db.exists: val is 1 for True, 0 for False
Exists ==
    Called(h, FALSE,
           Result("exists", <<>>, "", <<>>, IF IsFile(h.file) THEN 1 ELSE 0))

\* len(db)
Len_ ==
    LET l == DBLen(h)
    IN  Called([h EXCEPT !.length = l.length], l.queried,
               Result("len", <<>>, l.err, <<>>, l.val))

\* the caller drops what the last call returned
Discard ==
    /\ pc = "idle"
    /\ res.op # "none"
    /\ res' = NoResult
    /\ UNCHANGED <<storeVars, h, buildVars, histVars, accepted>>

(***************************************************************************)
(* DB.initialize_db, a being the answer typed at the prompt.               *)
(***************************************************************************)
Confirmed(a) == StartsWith(Upper(a), <<"Y">>)

initialize_db(a) ==
    /\ pc = "idle"
    /\ res.op = "none"
    /\ IF ~Confirmed(a)
       THEN /\ res' = Result("initialize_db", a, "", <<>>, 0)
            /\ UNCHANGED <<storeVars, accepted>>
       ELSE IF ~StartsWith(h.file, SqliteLocal)
       THEN /\ res' = Result("initialize_db", a, "Exception", <<>>, 0)
            /\ UNCHANGED <<storeVars, accepted>>
       ELSE LET left == IF IsFile(h.file) THEN fs \ {h.file} ELSE fs
                fresh == EnginePath(h.file) \notin left \/ ~schema
            IN  /\ fs' = left \cup {EnginePath(h.file)}
                /\ schema' = TRUE
                /\ dbSNP' = IF fresh THEN <<>> ELSE dbSNP
                /\ dbInfo' = IF fresh THEN <<>> ELSE dbInfo
                /\ accepted' = 0
                /\ res' = Result("initialize_db", a, "", <<>>, 0)
    /\ UNCHANGED <<h, buildVars, histVars>>


(***************************************************************************)
(* DB.random(count), draws being what randint returned, call by call.      *)
(***************************************************************************)
RandomRows(cnt, draws) ==
    IF cnt > 1
    THEN SelectSeq(dbSNP, LAMBDA r : \E i \in 1..cnt : r.id = draws[i])
    ELSE SelectSeq(dbSNP, LAMBDA r : r.id = draws[1])

\* randint(0, n) in the place of randint(1, n)
Draws_FromZero(cnt, n) == IF n >= 1 THEN [1..cnt -> 0..n] ELSE {<<>>}

\* the values randint(1, n) can return cnt times over; none when n < 1
Draws(cnt, n) == IF n >= 1 THEN [1..cnt -> 1..n] ELSE {<<>>}

random(cnt) ==
    LET l == DBLen(h)
        handle == [h EXCEPT !.length = l.length]
    IN  \E draws \in Draws(cnt, IF l.err = "" THEN l.val ELSE 0) :
            IF l.err # ""
            THEN Called(handle, l.queried,
                        Result("random", <<cnt, draws>>, l.err, <<>>, 0))
            ELSE IF l.val < 1
            THEN Called(handle, l.queried,
                        Result("random", <<cnt, draws>>, "ValueError", <<>>, 0))
            ELSE Called(handle, TRUE,
                        Result("random", <<cnt, draws>>, Connect(h.file),
                               IF Connect(h.file) = "" THEN RandomRows(cnt, draws)
                               ELSE <<>>, l.val))

(***************************************************************************)
(* DB.lookup_rsids(rsids): rsids is a str or a list.                       *)
(***************************************************************************)
PyList(items) == [t |-> "list", items |-> items]

lookup_rsids(rsids) ==
    LET ids == IF rsids.t = "str" THEN <<rsids>> ELSE rsids.items
        bad == \E i \in 1..Len(ids) :
                   ids[i].t # "str" \/ ~StartsWith(ids[i].v, Rs)
        e == IF bad THEN "AssertionError" ELSE Connect(h.file)
    IN  Called(h, ~bad,
               Result("lookup_rsids", rsids, e,
                      IF e = ""
                      THEN SelectSeq(dbSNP, LAMBDA r : \E i \in 1..Len(ids) :
                                                  r.name = ids[i].v)
                      ELSE <<>>, 0))

(***************************************************************************)
(* DB.lookup_location(chrom, start, end): end = 0 stands for every end     *)
(* that is not true (None, 0).  The row first() returns is the list of one *)
(* row, None the empty list.                                               *)
(***************************************************************************)
\* the label with 'chr' put before it unless it is there
Normalize(label) == IF StartsWith(label, Chr) THEN label ELSE Chr \o label

First(found) == IF found = <<>> THEN <<>> ELSE <<found[1]>>

lookup_location(chrom, start, end) ==
    LET bad == chrom.t \notin {"str", "int"}
        c == Normalize(Str(chrom))
        e == IF bad THEN "ValueError" ELSE Connect(h.file)
    IN  Called(h, ~bad,
               Result("lookup_location", <<chrom, start, end>>, e,
                      IF e = ""
                      THEN First(SelectSeq(dbSNP, LAMBDA r :
                               /\ r.chrom = c
                               /\ r.start = start
                               /\ (end # 0 => r.end = end)))
                      ELSE <<>>, 0))

(***************************************************************************)
(* DB.lookup_locations(locs): locs is the dictionary as the list of its    *)
(* items [k, v] in the dictionary's order.                                 *)
(***************************************************************************)
\* d[key] = value on a dictionary kept as the list of its items
DictSet(d, key, value) ==
    IF \E i \in 1..Len(d) : d[i].k = key
    THEN [i \in 1..Len(d) |-> IF d[i].k = key THEN [k |-> key, v |-> value]
                              ELSE d[i]]
    ELSE Append(d, [k |-> key, v |-> value])

RECURSIVE NormalizeKeys(_, _)
\* lines 249-259: the dictionary c built from the first n items of locs
NormalizeKeys(locs, n) ==
    IF n = 0 THEN <<>>
    ELSE DictSet(NormalizeKeys(locs, n - 1), Normalize(Str(locs[n].k)),
                 locs[n].v)

\* line 263: the slices starts[i:i + 990]
Chunks(starts) ==
    [c \in 1..((Len(starts) + ChunkSize - 1) \div ChunkSize) |->
        SubSeq(starts, (c - 1) * ChunkSize + 1,
               IF c * ChunkSize < Len(starts) THEN c * ChunkSize
               ELSE Len(starts))]

RECURSIVE ChunkRows(_, _, _)
\* the rows of the queries of the first n chunks of one chromosome
ChunkRows(chrom, chunks, n) ==
    IF n = 0 THEN <<>>
    ELSE ChunkRows(chrom, chunks, n - 1) \o
         SelectSeq(dbSNP, LAMBDA r : /\ r.chrom = chrom
                             /\ \E i \in 1..Len(chunks[n]) :
                                    r.start = chunks[n][i])

RECURSIVE LocationRows(_, _)
\* lines 261-270 over the first n items of the normalized dictionary
LocationRows(c, n) ==
    IF n = 0 THEN <<>>
    ELSE LocationRows(c, n - 1) \o
         ChunkRows(c[n].k, Chunks(c[n].v), Len(Chunks(c[n].v)))

lookup_locations(locs) ==
    LET c == NormalizeKeys(locs, Len(locs))
        queried == \E i \in 1..Len(c) : c[i].v # <<>>
        e == IF locs = <<>> THEN "IndexError"
             ELSE IF locs[1].k.t \notin {"str", "int"} THEN "ValueError"
             ELSE IF queried THEN Connect(h.file)
             ELSE ""
    IN  Called(h, e \notin {"IndexError", "ValueError"} /\ queried,
               Result("lookup_locations", locs, e,
                      IF e = "" THEN LocationRows(c, Len(c)) ELSE <<>>, 0))

(***************************************************************************)
(* DB.between(locations) under interpreter version py: locations is a     *)
(* dict, given as the list of its items [k, v] with v = <<start, end>>,    *)
(* or a value of another type.                                             *)
(***************************************************************************)
PyDict(items) == [t |-> "dict", items |-> items]

\* locations[chrom]
DictGet(d, key) ==
    d[CHOOSE i \in 1..Len(d) : d[i].k.t = key.t /\ d[i].k = key].v

RECURSIVE BetweenRows(_, _, _)
\* lines 170-177 over the first n keys of the sorted list
BetweenRows(d, keys, n) ==
    IF n = 0 THEN <<>>
    ELSE BetweenRows(d, keys, n - 1) \o
         SelectSeq(dbSNP, LAMBDA r : /\ r.chrom = keys[n].v
                             /\ DictGet(d, keys[n])[1] <= r.start
                             /\ r.start <= DictGet(d, keys[n])[2])

between(py, locations) ==
    LET d == locations.items
        sorted == SortedByChromKey(py, [i \in 1..Len(d) |-> d[i].k])
        queried == locations.t = "dict" /\ sorted.err = "" /\ d # <<>>
        e == IF locations.t # "dict" THEN "ValueError"
             ELSE IF sorted.err # "" THEN sorted.err
             ELSE IF queried THEN Connect(h.file)
             ELSE ""
    IN  Called(h, queried,
               Result("between", <<py, locations>>, e,
                      IF e = "" THEN BetweenRows(d, sorted.keys, Len(d))
                      ELSE <<>>, 0))

\* chrom_key(a) < chrom_key(b), as a caller that orders two labels asks,
\* under interpreter version py: val is 1 for True, 0 otherwise
CompareRanks(py, a, b) ==
    LET ka == chrom_key(PyStr(a))
        kb == chrom_key(PyStr(b))
        lt == PyLess(py, ka, kb)
    IN  Called(h, FALSE,
               Result("chrom_key", <<py, a, b>>,
                      IF lt = "TypeError" THEN lt ELSE "", <<ka, kb>>,
                      IF lt = "True" THEN 1 ELSE 0))


(***************************************************************************)
(* The arguments the calls are tried with.                                 *)
(***************************************************************************)
\* the major versions of the interpreter setup.py names
PythonVersions == {2, 3}

Answers == {<<"y">>, <<"N">>, <<>>}

Labels == {chr7, chrX, chrY, chrM, chrUn, chr99}

RsidArgs ==
    { PyStr(rs1), PyStr(<<"x","1">>),
      PyList(<<PyStr(rs1), PyStr(rs3)>>), PyList(<<PyStr(rs2), PyInt(7)>>) }

ChromArgs == {PyStr(chr7), PyStr(<<"7">>), PyInt(7), PyNone}

\* 991 starts: the last of the first chunk is 5, the one of the second is 7
LongStarts ==
    [i \in 1..(ChunkSize + 1) |->
        IF i = ChunkSize THEN 5 ELSE IF i = ChunkSize + 1 THEN 7 ELSE 0]

PointKeys == {PyStr(chr7), PyStr(<<"7">>), PyInt(7), PyStr(chrX), PyNone}

PointMaps ==
    {<<>>}
    \cup { <<[k |-> a, v |-> s]>> : a \in PointKeys, s \in {<<>>, <<5, 7>>} }
    \cup { <<[k |-> a, v |-> LongStarts]>> : a \in {PyStr(chr7), PyInt(7)} }
    \cup UNION { { <<[k |-> a, v |-> <<5>>], [k |-> b, v |-> <<t>>]>> :
                       b \in PointKeys \ {a}, t \in {5, 7} } : a \in PointKeys }

WindowKeys == {PyStr(chr7), PyStr(chrX), PyStr(chrUn), PyInt(7)}
Windows == {<<5, 5>>, <<0, 9>>}

RangeMaps ==
    {PyList(<<>>), PyDict(<<>>)}
    \cup { PyDict(<<[k |-> a, v |-> w]>>) : a \in WindowKeys, w \in Windows }
    \cup UNION { { PyDict(<<[k |-> a, v |-> w], [k |-> b, v |-> <<0, 9>>]>>) :
                       b \in WindowKeys \ {a}, w \in Windows } : a \in WindowKeys }

\* the loader, and initialize_db before it
NextBuild ==
    \/ \E B \in 1..MaxBatch : BuildStart(B)
    \/ \E line \in Lines : ReadLine(line)
    \/ EndOfFile
    \/ WriteLength
    \/ Return
    \/ \E a \in Answers : initialize_db(a)
    \/ Discard

\* the calls that read the store
NextQuery ==
    \/ \E location \in Locations : NewHandle(location)
    \/ Exists
    \/ Len_
    \/ \E cnt \in 1..MaxCount : random(cnt)
    \/ \E rsids \in RsidArgs : lookup_rsids(rsids)
    \/ \E chrom \in ChromArgs, start \in {5, 7}, end \in {0, 6} :
           lookup_location(chrom, start, end)
    \/ \E locs \in PointMaps : lookup_locations(locs)
    \/ \E py \in PythonVersions, locations \in RangeMaps : between(py, locations)
    \/ \E py \in PythonVersions, a \in Labels, b \in Labels :
           CompareRanks(py, a, b)

Next == NextBuild \/ NextQuery

Spec == Init /\ [][Next]_vars

\* the loader with the runs an exception from outside ends
NextCrash == NextBuild \/ Interrupt

SpecCrash == Init /\ [][NextCrash]_vars


(***************************************************************************)
(* Properties.                                                             *)
(***************************************************************************)
LocalHandle == StartsWith(h.file, SqliteLocal)

\* the number stored under 'length'
StoredLength(info) == StrToInt(LengthValues(info)[1].value)

\* the names of the rows of a table
Names(table) == {table[i].name : i \in 1..Len(table)}

\* C1: after a run of build_db that completes, the 'length' value in
\* storage, and len() of a handle that resolves it then, equal the number
\* of rows of dbSNP, which equals the number of lines accepted by the runs
\* completed since initialize_db.
C1_LengthIsRowsIsAccepted ==
    pc = "done" =>
        /\ LengthValues(dbInfo) # <<>>
        /\ StoredLength(dbInfo) = Len(dbSNP)
        /\ DBLen(NewLocalHandle).err = ""
        /\ DBLen(NewLocalHandle).val = Len(dbSNP)
        /\ Len(dbSNP) = accepted

\* C2: during a run with batch size commit_every the buffer never holds
\* more than commit_every records, and every flush made inside the loop
\* writes exactly commit_every records.
C2_BufferBoundedByBatch ==
    pc \in {"loop", "length", "done", "failed"} =>
        /\ Len(records) <= commit_every
        /\ \A i \in 1..Len(flushes) : Len(flushes[i]) = commit_every

\* C3: when a run aborts on a malformed line, every row of every batch
\* flushed before that line is stored.
C3_FlushedRowsSurviveAbort ==
    (pc = "failed" /\ err = "ValueError") =>
        \A i \in 1..Len(flushes) : \A j \in 1..Len(flushes[i]) :
            flushes[i][j][1] \in Names(dbSNP)

\* C4 as claimed: the length entry is written once per run, after the rows
\* are committed, and after a run that stopped before that write len() on a
\* new handle fails.
C4_StoppedRunLeavesNoLength ==
    /\ lenWrites <= 1
    /\ (pc = "done" => lenWrites = 1)
    /\ (lenWrites = 1 => conn = <<>> /\ StoredLength(dbInfo) = Len(dbSNP))
    /\ (pc = "failed" => DBLen(NewLocalHandle).err # "")

\* C4 as amended: the length entry is written at most once per run, exactly
\* once in a run that completes, after the rows are committed and with
\* their number; a run that stopped before that write leaves dbInfo as it
\* was when the run started, so len() on a new handle fails exactly when the
\* store held no length entry then, and returns the stored value otherwise.
C4_StoppedRunLeavesLengthAsItWas ==
    /\ lenWrites <= 1
    /\ (pc = "done" <=> lenWrites = 1)
    /\ (lenWrites = 1 => conn = <<>> /\ StoredLength(dbInfo) = Len(dbSNP))
    /\ (pc = "failed" =>
           /\ dbInfo = infoAtStart
           /\ (DBLen(NewLocalHandle).err # "" <=> LengthValues(infoAtStart) = <<>>)
           /\ (LengthValues(infoAtStart) # <<>> =>
                  DBLen(NewLocalHandle).val = StoredLength(infoAtStart)))

\* a run stopped after its rows were committed, on a store an earlier run
\* had completed on: len() returns the earlier count
C4_Witness ==
    /\ pc = "failed"
    /\ LengthValues(infoAtStart) # <<>>
    /\ DBLen(NewLocalHandle).err = ""
    /\ DBLen(NewLocalHandle).val < Len(dbSNP)

\* C5: after a confirmed initialize_db on a local handle the store holds no
\* rows and no length entry, and exists is true exactly when the backing
\* file is on disk.
C5_InitializeResetsAndExistsTellsFile ==
    LocalHandle =>
        /\ (res.op = "exists" => (res.val = 1 <=> EnginePath(h.file) \in fs))
        /\ (res.op = "initialize_db" /\ Confirmed(res.args) =>
               /\ res.err = ""
               /\ schema
               /\ dbSNP = <<>>
               /\ dbInfo = <<>>)


QueryOps == {"lookup_rsids", "lookup_location", "lookup_locations", "between"}

\* the arguments of the call in res are ones the call accepts
ValidArgs ==
    CASE res.op = "lookup_rsids" ->
            LET ids == IF res.args.t = "str" THEN <<res.args>>
                       ELSE res.args.items
            IN  \A i \in 1..Len(ids) :
                    ids[i].t = "str" /\ StartsWith(ids[i].v, Rs)
      [] res.op = "lookup_location" -> res.args[1].t \in {"str", "int"}
      [] res.op = "lookup_locations" ->
            res.args # <<>> /\ res.args[1].k.t \in {"str", "int"}
      [] res.op = "between" ->
            /\ res.args[2].t = "dict"
            /\ \A i \in 1..Len(res.args[2].items) :
                   /\ res.args[2].items[i].k.t = "str"
                   /\ chrom_key(res.args[2].items[i].k).t = "int"
      [] OTHER -> TRUE

\* C6 as claimed: on a store that is Unbound or Initialized, len() and
\* every lookup fail with an error.
C6_NoResultBeforePopulated ==
    (/\ LocalHandle
     /\ res.op \in QueryOps \cup {"len", "random"}
     /\ res.state \in {"Unbound", "Initialized"}) => res.err # ""

\* C6 as amended: len() and random fail on every store that holds no length
\* entry; on an Unbound store every lookup that issues a query (the query
\* leaves the backing file behind) fails; on an Initialized store the
\* lookups raise no error of the store, return no row, and with arguments
\* they accept return without an error.
C6_LookupsReturnEmptyWhenInitialized ==
    LocalHandle =>
        /\ (res.op \in {"len", "random"} /\ res.state # "Populated" =>
               res.err # "")
        /\ (res.op \in QueryOps /\ res.state = "Unbound" /\ DbPath \in fs =>
               res.err # "")
        /\ (res.op \in QueryOps /\ res.state = "Initialized" =>
               /\ res.rows = <<>>
               /\ res.err # "OperationalError"
               /\ (ValidArgs => res.err = ""))

\* lookup_location on an Initialized store returns None, and raises nothing
C6_Witness ==
    /\ LocalHandle
    /\ res.op = "lookup_location"
    /\ res.state = "Initialized"
    /\ res.err = ""
    /\ res.rows = <<>>

\* C7: on a populated store with len() >= 1, random(1) returns exactly one
\* row whatever randint draws in 1..len(), every integer of 1..length is
\* the id of exactly one row, and random(n), n > 1, returns at most n rows.
C7_RandomReturnsOneRow ==
    /\ (LocalHandle /\ res.op = "random" /\ res.val >= 1 =>
           /\ res.err = ""
           /\ (res.args[1] = 1 => Len(res.rows) = 1)
           /\ (res.args[1] > 1 => Len(res.rows) \in 1..res.args[1]))
    /\ (LengthValues(dbInfo) # <<>> =>
           \A k \in 1..StoredLength(dbInfo) :
               Cardinality({i \in 1..Len(dbSNP) : dbSNP[i].id = k}) = 1)

\* random(1) drew the last id of a store of two rows and returned its row
C7_Witness ==
    /\ LocalHandle
    /\ res.op = "random"
    /\ res.args = <<1, <<2>>>>
    /\ res.val = 2
    /\ Len(res.rows) = 1
    /\ res.rows[1].id = 2

(***************************************************************************)
(* The order the chromosome rank is to define: numeric labels in           *)
(* ascending order, then X, then Y, then the mitochondrial labels, then    *)
(* the other labels.                                                       *)
(***************************************************************************)
Stripped(label) ==
    IF StartsWith(label, Chr) THEN SubSeq(label, 4, Len(label)) ELSE label

RankClass(label) ==
    IF IsInt(Stripped(label)) THEN 0
    ELSE IF Upper(Stripped(label)) = <<"X">> THEN 1
    ELSE IF Upper(Stripped(label)) = <<"Y">> THEN 2
    ELSE IF StartsWith(Upper(Stripped(label)), <<"M">>) THEN 3
    ELSE 4

RankedBefore(a, b) ==
    \/ RankClass(a) < RankClass(b)
    \/ /\ RankClass(a) = 0
       /\ RankClass(b) = 0
       /\ StrToInt(Stripped(a)) < StrToInt(Stripped(b))
    \/ /\ RankClass(a) = 4
       /\ RankClass(b) = 4
       /\ StrLt(Stripped(a), Stripped(b))

\* the rows of dbSNP as a set
RowSet(table) == {table[i] : i \in 1..Len(table)}

\* C8: between returns, for a dict of windows, exactly the rows in the
\* window of their chromosome, the chromosomes in ascending rank; an
\* argument that is no dict fails.
C8_BetweenReturnsWindowsInRankOrder ==
    (/\ LocalHandle
     /\ res.op = "between"
     /\ res.state = "Populated") =>
        IF res.args[2].t # "dict" THEN res.err # ""
        ELSE LET d == res.args[2].items
             IN  (\A i \in 1..Len(d) : d[i].k.t = "str") =>
                     /\ res.err = ""
                     /\ RowSet(res.rows) =
                            {r \in RowSet(dbSNP) : \E i \in 1..Len(d) :
                                /\ r.chrom = d[i].k.v
                                /\ d[i].v[1] <= r.start
                                /\ r.start <= d[i].v[2]}
                     /\ \A i, j \in 1..Len(res.rows) :
                            i < j => ~RankedBefore(res.rows[j].chrom,
                                                   res.rows[i].chrom)

\* C9: the ranks of two labels compare without an error, and the rank of a
\* is less than the rank of b exactly when a comes before b in the order
\* numeric, X, Y, mitochondrial, other.
C9_RankIsTheChromosomeOrder ==
    res.op = "chrom_key" =>
        /\ res.err = ""
        /\ (res.val = 1 <=> RankedBefore(res.args[2], res.args[3]))

\* C10: lookup_locations returns exactly the rows whose chrom is the
\* normalized form of a key and whose start is listed under that key, and
\* fails when a key is neither a string nor an integer.
C10_PointsFoundUnderEveryKey ==
    (/\ LocalHandle
     /\ res.op = "lookup_locations"
     /\ res.state = "Populated"
     /\ res.args # <<>>) =>
        LET locs == res.args
        IN  IF \E i \in 1..Len(locs) : locs[i].k.t \notin {"str", "int"}
            THEN res.err # ""
            ELSE /\ res.err = ""
                 /\ RowSet(res.rows) =
                        {r \in RowSet(dbSNP) : \E i \in 1..Len(locs) :
                            /\ r.chrom = Normalize(Str(locs[i].k))
                            /\ \E j \in 1..Len(locs[i].v) :
                                   r.start = locs[i].v[j]}

====
